---- MODULE Spec2Model ----
(***************************************************************************)
(* A model of the IBC transfer load tester.                                *)
(*                                                                         *)
(*   Spec       one Send Loop task: the body of IBCtransferCmd's RunE      *)
(*              (the same statements form DstChainsend), from opening the  *)
(*              client to the return, against a chain whose height grows   *)
(*              and whose node may report a lagging height.                *)
(*   SpecLive   Spec with the fairness of a chain that keeps producing     *)
(*              blocks and of a goroutine that keeps running.              *)
(*   SpecMulti  the multi-chain command: validation, one goroutine per     *)
(*              source chain, one per destination chain, the WaitGroups.   *)
(***************************************************************************)
EXTENDS Integers, Sequences, FiniteSets, TLC

(***************************************************************************)
(* Bounds of the model.                                                    *)
(***************************************************************************)
MaxBlocks == 2
MaxTx == 2
MaxHeight == 3
MaxLag == 1
MaxSeq0 == 1

(***************************************************************************)
(* Program constants.                                                      *)
(***************************************************************************)
\* resp.TxResponse.Code == 0x14: the mempool is full
CodeMempoolFull == 20
\* another non-zero application code
CodeOther == 5
\* startingHeight := st.SyncInfo.LatestBlockHeight + 2
StartOffset == 2

Codes == {0, CodeMempoolFull, CodeOther}

(***************************************************************************)
(* strconv.Atoi on a string given as a sequence of one-character strings.  *)
(***************************************************************************)
DigitChars == <<"0", "1", "2", "3", "4", "5", "6", "7", "8", "9">>

IsDigit(c) == \E d \in 1..Len(DigitChars) : DigitChars[d] = c

DigitVal(c) == (CHOOSE d \in 1..Len(DigitChars) : DigitChars[d] = c) - 1

\* the digits of s after an optional sign
AtoiBody(s) == IF Len(s) > 0 /\ s[1] \in {"+", "-"} THEN Tail(s) ELSE s

RECURSIVE DigitsVal(_)
DigitsVal(s) ==
    IF Len(s) = 0 THEN 0
    ELSE 10 * DigitsVal(SubSeq(s, 1, Len(s) - 1)) + DigitVal(s[Len(s)])

\* err == nil
AtoiOk(s) == Len(AtoiBody(s)) > 0 /\ \A k \in 1..Len(AtoiBody(s)) : IsDigit(AtoiBody(s)[k])

AtoiVal(s) ==
    IF Len(s) > 0 /\ s[1] = "-" THEN 0 - DigitsVal(AtoiBody(s)) ELSE DigitsVal(AtoiBody(s))

\* a decimal numeral of a non-negative integer, with an optional plus sign
NonNegArg(s) ==
    LET body == IF Len(s) > 0 /\ s[1] = "+" THEN Tail(s) ELSE s
    IN  Len(body) > 0 /\ \A k \in 1..Len(body) : IsDigit(body[k])

DigitStr(n) == <<DigitChars[n + 1]>>

\* the command-line arguments the model draws from
BlocksArgs == {DigitStr(n) : n \in 0..MaxBlocks} \cup {<<"-", "1">>, <<"x">>}
TxNumArgs == {DigitStr(n) : n \in 0..MaxTx} \cup {<<"0", "1">>, <<"-", "1">>, <<>>}
MsgNumArgs == {<<"1">>, <<"-", "1">>, <<"1", "x">>}

(***************************************************************************)
(* The state of one Send Loop task.                                        *)
(***************************************************************************)
VARIABLES
    args,           \* [blocks, txNum, msgNum]: the argument strings
    pc,             \* the statement the task is at
    err,            \* "none", or the kind of the error returned
    connected,      \* the client is open
    everConnected,  \* client.NewClient has succeeded
    blocks, txNum, msgNum,
    seq0,           \* the sequence the chain holds for the account
    accSeq,
    height,         \* the chain's height
    lastObs,        \* the height of the last status report, 0 before the first
    monotone,       \* no status report was lower than the one before it
    startingHeight,
    targetHeight,
    i,
    sent,
    blockTimes,     \* the keys of the blockTimes map
    signedSeq,      \* the sequence of the transaction being broadcast
    lastBcast,      \* [seq, code] of the last broadcast, or NoBcast
    nBcast,         \* broadcasts answered so far
    accepted,       \* broadcasts of this iteration not answered 0x14
    saturated,      \* a broadcast of this iteration was answered 0x14
    nStatus,        \* status queries of this iteration
    nWarn,          \* "mismatching block height" warnings
    nRecords,       \* "block committed" records
    lastRecord,     \* the last "block committed" record, or NoRecord
    nAdvance,       \* executions of targetHeight++
    lastWarn,       \* [expected, got] of the last mismatch warning, or NoWarn
    lastWaited,     \* the height the last WaitForHeight was called with
    \* the multi-chain command
    srcchains,      \* strings.Split(args[0], ",")
    dstchains,      \* strings.Split(args[1], ",")
    mnemonics,      \* len(cfg.Custom.Mnemonics)
    mainPc,         \* the statement RunE is at
    ret,            \* what RunE returned: "none" before it returns, then "nil" or "error"
    ctxCancelled,   \* the deferred cancel() has run
    mainWg,         \* the counter of RunE's WaitGroup
    nextSrc,        \* the position in srcchains of the next goroutine RunE starts
    srcT,           \* the SrcChainsend goroutines, by position in srcchains
    srcWg,          \* the counter of each SrcChainsend's WaitGroup
    dstT            \* the DstChainsend goroutines, by <<source position, index>>

loopVars == <<args, pc, err, connected, everConnected, blocks, txNum, msgNum, seq0,
              accSeq, height, lastObs, monotone, startingHeight, targetHeight, i, sent, blockTimes,
              signedSeq, lastBcast, nBcast, accepted, saturated, nStatus, nWarn,
              nRecords, lastRecord, nAdvance, lastWarn, lastWaited>>

multiVars == <<srcchains, dstchains, mnemonics, mainPc, ret, ctxCancelled, mainWg, nextSrc,
               srcT, srcWg, dstT>>

vars == <<loopVars, multiVars>>

parseVars == <<blocks, txNum, msgNum>>
obsVars == <<lastObs, monotone>>
bcastVars == <<signedSeq, lastBcast, nBcast, accepted, saturated>>
recVars == <<nRecords, lastRecord, nAdvance, blockTimes>>
warnVars == <<nWarn, lastWarn>>

NoBcast == [seq |-> -1, code |-> -1]
NoRecord == [height |-> 0, sent |-> 0, known |-> FALSE]
NoWarn == [expected |-> 0, got |-> 0]

\* the heights a status query may report: the node lags by at most MaxLag
Reports(h) == {h - l : l \in 0..MaxLag} \cap (1..h)

(***************************************************************************)
(* The pure steps of the loop.                                             *)
(***************************************************************************)
\* faulty variant: no block of buffer
StartingHeightNoBuffer(obs) == obs + 1

\* startingHeight := st.SyncInfo.LatestBlockHeight + 2
StartingHeight(obs) == obs + StartOffset

\* faulty variant: the wait returns whatever the node reports
WaitDoneEarly(r, h) == TRUE

\* rpcclient.WaitForHeight returns nil once the node reports a height r of at least h
WaitDone(r, h) == r >= h

\* faulty variant: the target is kept whatever the node reports
DriftTargetKept(target, obs) == target

\* if st.SyncInfo.LatestBlockHeight != targetHeight-1 { targetHeight = ... + 1 }
DriftTarget(target, obs) == IF obs # target - 1 THEN obs + 1 ELSE target

\* log.Warn()...Msg("mismatching block height")
DriftWarns(target, obs) == obs # target - 1

\* faulty variant: the loop runs once more
LoopContinuesInclusive(n, total) == n <= total

\* i < blocks
LoopContinues(n, total) == n < total

\* faulty variant: the sequence is not rolled back on 0x14
SeqAfterNoRollback(seq, code) == seq + 1

\* accSeq = accSeq + 1; if code == 0x14 { accSeq = accSeq - 1 }
SeqAfter(seq, code) == IF code # 0 /\ code = CodeMempoolFull THEN (seq + 1) - 1 ELSE seq + 1

\* faulty variant: any non-zero code ends the block
BreaksLoopAnyCode(code) == code # 0

\* break loop
BreaksLoop(code) == code # 0 /\ code = CodeMempoolFull

\* faulty variant: the rejected broadcast is counted
SentAfterCountsAll(n, code) == n + 1

\* sent++ (not reached after break loop)
SentAfter(n, code) == IF BreaksLoop(code) THEN n ELSE n + 1

(***************************************************************************)
(* Init: the command has read its configuration.                           *)
(***************************************************************************)
Init ==
    /\ args \in [blocks : BlocksArgs, txNum : TxNumArgs, msgNum : MsgNumArgs]
    /\ pc = "NewClient"
    /\ err = "none"
    /\ connected = FALSE
    /\ everConnected = FALSE
    /\ blocks = 0 /\ txNum = 0 /\ msgNum = 0
    /\ seq0 \in 0..MaxSeq0
    /\ accSeq = 0
    /\ height = 1
    /\ lastObs = 0
    /\ monotone = TRUE
    /\ startingHeight = 0
    /\ targetHeight = 0
    /\ i = 0
    /\ sent = 0
    /\ blockTimes = {}
    /\ signedSeq = -1
    /\ lastBcast = NoBcast
    /\ nBcast = 0
    /\ accepted = 0
    /\ saturated = FALSE
    /\ nStatus = 0
    /\ nWarn = 0
    /\ nRecords = 0
    /\ lastRecord = NoRecord
    /\ nAdvance = 0
    /\ lastWarn = NoWarn
    /\ lastWaited = 0
    /\ srcchains = <<>>
    /\ dstchains = <<>>
    /\ mnemonics = 0
    /\ mainPc = "returned"
    /\ ret = "none"
    /\ ctxCancelled = FALSE
    /\ mainWg = 0
    /\ nextSrc = 1
    /\ srcT = <<>>
    /\ srcWg = <<>>
    /\ dstT = <<>>

(***************************************************************************)
(* The steps of IBCtransferCmd's RunE.  A call that returns an error ends  *)
(* the task: the deferred client.Stop() closes the client.                 *)
(***************************************************************************)
\* faulty variant: the failed call is tried again
ReturnRetries(e) ==
    /\ pc' = pc
    /\ err' = e
    /\ connected' = connected

Return(e) ==
    /\ pc' = "returned"
    /\ err' = e
    /\ connected' = FALSE

Goto(l) ==
    /\ pc' = l
    /\ UNCHANGED <<err, connected>>

\* the chain commits a block
Tick ==
    /\ \/ height < MaxHeight
       \/ pc = "WaitStart" /\ height < startingHeight - 1
       \/ pc = "WaitForHeight" /\ height < targetHeight
    /\ height' = height + 1
    /\ UNCHANGED <<multiVars, args, pc, err, connected, everConnected, parseVars, seq0, accSeq,
                   obsVars, startingHeight, targetHeight, i, sent, bcastVars, nStatus,
                   warnVars, recVars, lastWaited>>

\* client, err := client.NewClient(mainchain.Rpc, mainchain.Grpc)
NewClient ==
    /\ pc = "NewClient"
    /\ \/ /\ pc' = "GetNetworkChainID"
          /\ connected' = TRUE
          /\ everConnected' = TRUE
          /\ err' = err
       \/ /\ Return("connect")
          /\ everConnected' = everConnected
    /\ UNCHANGED <<multiVars, args, parseVars, seq0, accSeq, height, obsVars, startingHeight,
                   targetHeight, i, sent, bcastVars, nStatus, warnVars, recVars, lastWaited>>

\* a call that changes nothing but the place of the task
Call(from, to, e) ==
    /\ pc = from
    /\ \/ Goto(to)
       \/ Return(e)
    /\ UNCHANGED <<multiVars, args, everConnected, parseVars, seq0, accSeq, height, obsVars,
                   startingHeight, targetHeight, i, sent, bcastVars, nStatus, warnVars,
                   recVars, lastWaited>>

\* chainID, err := client.RPC.GetNetworkChainID(ctx)
GetNetworkChainID == Call("GetNetworkChainID", "ParseCoin", "query")

\* coin, err := sdktypes.ParseCoinNormalized(args[4])
ParseCoin == Call("ParseCoin", "AtoiBlocks", "config")

\* blocks, err := strconv.Atoi(args[5])
AtoiBlocks ==
    /\ pc = "AtoiBlocks"
    /\ IF AtoiOk(args.blocks)
       THEN blocks' = AtoiVal(args.blocks) /\ Goto("AtoiTxNum")
       ELSE blocks' = blocks /\ Return("config")
    /\ UNCHANGED <<multiVars, args, everConnected, txNum, msgNum, seq0, accSeq, height, obsVars,
                   startingHeight, targetHeight, i, sent, bcastVars, nStatus, warnVars,
                   recVars, lastWaited>>

\* txNum, err := strconv.Atoi(args[6])
AtoiTxNum ==
    /\ pc = "AtoiTxNum"
    /\ IF AtoiOk(args.txNum)
       THEN txNum' = AtoiVal(args.txNum) /\ Goto("AtoiMsgNum")
       ELSE txNum' = txNum /\ Return("config")
    /\ UNCHANGED <<multiVars, args, everConnected, blocks, msgNum, seq0, accSeq, height, obsVars,
                   startingHeight, targetHeight, i, sent, bcastVars, nStatus, warnVars,
                   recVars, lastWaited>>

\* msgNum, err := strconv.Atoi(args[7])
AtoiMsgNum ==
    /\ pc = "AtoiMsgNum"
    /\ IF AtoiOk(args.msgNum)
       THEN msgNum' = AtoiVal(args.msgNum) /\ Goto("RecoverAccount")
       ELSE msgNum' = msgNum /\ Return("config")
    /\ UNCHANGED <<multiVars, args, everConnected, blocks, txNum, seq0, accSeq, height, obsVars,
                   startingHeight, targetHeight, i, sent, bcastVars, nStatus, warnVars,
                   recVars, lastWaited>>

\* accAddr, privKey, err := wallet.IBCRecoverAccountFromMnemonic(...)
RecoverAccount == Call("RecoverAccount", "GetBaseAccountInfo", "config")

\* account, err := client.GRPC.GetBaseAccountInfo(ctx, accAddr); accSeq := account.GetSequence()
GetBaseAccountInfo ==
    /\ pc = "GetBaseAccountInfo"
    /\ \/ accSeq' = seq0 /\ Goto("StatusStart")
       \/ accSeq' = accSeq /\ Return("query")
    /\ UNCHANGED <<multiVars, args, everConnected, parseVars, seq0, height, obsVars, startingHeight,
                   targetHeight, i, sent, bcastVars, nStatus, warnVars, recVars, lastWaited>>

\* a status report r arrives
Observe(r) ==
    /\ lastObs' = r
    /\ monotone' = (monotone /\ r >= lastObs)

\* st, err := client.RPC.Status(ctx); startingHeight := st.SyncInfo.LatestBlockHeight + 2
StatusStart ==
    /\ pc = "StatusStart"
    /\ \/ \E r \in Reports(height) :
             /\ Observe(r)
             /\ startingHeight' = StartingHeight(r)
             /\ nStatus' = nStatus + 1
             /\ Goto("WaitStart")
       \/ /\ Return("query")
          /\ UNCHANGED <<obsVars, startingHeight, nStatus>>
    /\ UNCHANGED <<multiVars, args, everConnected, parseVars, seq0, accSeq, height, targetHeight, i,
                   sent, bcastVars, warnVars, recVars, lastWaited>>

\* rpcclient.WaitForHeight(client.RPC, startingHeight-1, nil); targetHeight := startingHeight
WaitStart ==
    /\ pc = "WaitStart"
    /\ \/ \E r \in Reports(height) :
             /\ WaitDone(r, startingHeight - 1)
             /\ Observe(r)
             /\ targetHeight' = startingHeight
             /\ Goto("LoopHead")
       \/ /\ Return("query")
          /\ UNCHANGED <<obsVars, targetHeight>>
    /\ lastWaited' = startingHeight - 1
    /\ UNCHANGED <<multiVars, args, everConnected, parseVars, seq0, accSeq, height, startingHeight, i,
                   sent, bcastVars, nStatus, warnVars, recVars>>

\* for i := 0; i < blocks; i++ { st, err := client.RPC.Status(ctx); ...; sent := 0
LoopHead ==
    /\ pc = "LoopHead"
    /\ IF LoopContinues(i, blocks)
       THEN \/ \E r \in Reports(height) :
                  /\ Observe(r)
                  /\ nStatus' = nStatus + 1
                  /\ IF DriftWarns(targetHeight, r)
                     THEN /\ nWarn' = nWarn + 1
                          /\ lastWarn' = [expected |-> targetHeight - 1, got |-> r]
                     ELSE UNCHANGED warnVars
                  /\ targetHeight' = DriftTarget(targetHeight, r)
                  /\ sent' = 0
                  /\ accepted' = 0
                  /\ saturated' = FALSE
                  /\ Goto("FillOuter")
            \/ /\ Return("query")
               /\ UNCHANGED <<obsVars, nStatus, warnVars, targetHeight, sent, accepted,
                              saturated>>
       ELSE /\ Return("none")
            /\ UNCHANGED <<obsVars, nStatus, warnVars, targetHeight, sent, accepted, saturated>>
    /\ UNCHANGED <<multiVars, args, everConnected, parseVars, seq0, accSeq, height, startingHeight, i,
                   signedSeq, lastBcast, nBcast, recVars, lastWaited>>

\* faulty variant: the block is fetched without waiting for it
AfterFillSkipsWait == "Block"

\* the statement after the filling loop, where `break loop` and its end lead
AfterFill == "WaitForHeight"

\* for sent < txNum { msgs, err := tx.CreateTransferBot(...)
FillOuter ==
    /\ pc = "FillOuter"
    /\ IF sent < txNum
       THEN \/ Goto("Sign")
            \/ Return("build")
       ELSE Goto(AfterFill)
    /\ UNCHANGED <<multiVars, args, everConnected, parseVars, seq0, accSeq, height, obsVars,
                   startingHeight, targetHeight, i, sent, bcastVars, nStatus, warnVars,
                   recVars, lastWaited>>

\* for sent < txNum { txByte, err := tx.IbcSign(ctx, accSeq, accNum, privKey, msgs...)
Sign ==
    /\ pc = "Sign"
    /\ \/ signedSeq' = accSeq /\ Goto("Broadcast")
       \/ signedSeq' = signedSeq /\ Return("sign")
    /\ UNCHANGED <<multiVars, args, everConnected, parseVars, seq0, accSeq, height, obsVars,
                   startingHeight, targetHeight, i, sent, lastBcast, nBcast, accepted,
                   saturated, nStatus, warnVars, recVars, lastWaited>>

\* resp, err := client.GRPC.BroadcastTx(ctx, txByte); accSeq = accSeq + 1; ...; sent++
Broadcast ==
    /\ pc = "Broadcast"
    /\ \/ \E code \in Codes :
             /\ accSeq' = SeqAfter(accSeq, code)
             /\ sent' = SentAfter(sent, code)
             /\ lastBcast' = [seq |-> signedSeq, code |-> code]
             /\ nBcast' = nBcast + 1
             /\ saturated' = (code = CodeMempoolFull)
             /\ accepted' = IF code = CodeMempoolFull THEN accepted ELSE accepted + 1
             /\ IF BreaksLoop(code) THEN Goto(AfterFill)
                ELSE IF SentAfter(sent, code) < txNum THEN Goto("Sign")
                ELSE Goto("FillOuter")
       \/ /\ Return("broadcast")
          /\ UNCHANGED <<accSeq, sent, lastBcast, nBcast, saturated, accepted>>
    /\ UNCHANGED <<multiVars, args, everConnected, parseVars, seq0, height, obsVars, startingHeight,
                   targetHeight, i, signedSeq, nStatus, warnVars, recVars, lastWaited>>

\* rpcclient.WaitForHeight(client.RPC, targetHeight, nil)
WaitForHeight ==
    /\ pc = "WaitForHeight"
    /\ \/ \E r \in Reports(height) :
             /\ WaitDone(r, targetHeight)
             /\ Observe(r)
             /\ Goto("Block")
       \/ /\ Return("query")
          /\ UNCHANGED obsVars
    /\ lastWaited' = targetHeight
    /\ UNCHANGED <<multiVars, args, everConnected, parseVars, seq0, accSeq, height, startingHeight,
                   targetHeight, i, sent, bcastVars, nStatus, warnVars, recVars>>

\* bt, ok := blockTimes[targetHeight-1]
PastBlockKnown(times, target) == (target - 1) \in times

\* delete(blockTimes, targetHeight-1) when found; blockTimes[targetHeight] = r.Block.Time
BlockTimesAfter(times, target) ==
    (IF PastBlockKnown(times, target) THEN times \ {target - 1} ELSE times) \cup {target}

\* r, err := client.RPC.Block(ctx, &targetHeight); ...; log "block committed"; targetHeight++
Block ==
    /\ pc = "Block"
    /\ \/ /\ lastRecord' = [height |-> targetHeight, sent |-> sent,
                            known |-> PastBlockKnown(blockTimes, targetHeight)]
          /\ blockTimes' = BlockTimesAfter(blockTimes, targetHeight)
          /\ nRecords' = nRecords + 1
          /\ targetHeight' = targetHeight + 1
          /\ nAdvance' = nAdvance + 1
          /\ i' = i + 1
          /\ Goto("LoopHead")
       \/ /\ Return("query")
          /\ UNCHANGED <<recVars, targetHeight, i>>
    /\ UNCHANGED <<multiVars, args, everConnected, parseVars, seq0, accSeq, height, obsVars,
                   startingHeight, sent, bcastVars, nStatus, warnVars, lastWaited>>

Step ==
    \/ NewClient
    \/ GetNetworkChainID
    \/ ParseCoin
    \/ AtoiBlocks
    \/ AtoiTxNum
    \/ AtoiMsgNum
    \/ RecoverAccount
    \/ GetBaseAccountInfo
    \/ StatusStart
    \/ WaitStart
    \/ LoopHead
    \/ FillOuter
    \/ Sign
    \/ Broadcast
    \/ WaitForHeight
    \/ Block

Next == Tick \/ Step

Spec == Init /\ [][Next]_vars

\* the chain keeps producing blocks and the goroutine keeps running
SpecLive == Spec /\ WF_vars(Tick) /\ WF_vars(Step)

(***************************************************************************)
(* Claims about one Send Loop task.                                        *)
(***************************************************************************)
\* the sequence the next signing must carry, given the last answered broadcast
ExpectedSeq ==
    IF lastBcast = NoBcast THEN seq0
    ELSE IF lastBcast.code = CodeMempoolFull THEN lastBcast.seq
    ELSE lastBcast.seq + 1

\* C1: the sequence numbers passed to signing start at the queried sequence S and
\* each is the previous one plus one, whatever code the previous broadcast
\* received, except that after a 0x14 rejection the rejected number is used again.
C1_SeqContiguous ==
    [][(pc = "Sign" /\ pc' = "Broadcast") => signedSeq' = ExpectedSeq]_vars

\* a second block starts by signing again the number rejected in the first
C1_Witness ==
    /\ pc = "Broadcast"
    /\ i = 1
    /\ nBcast = 2
    /\ lastBcast.code = CodeMempoolFull
    /\ signedSeq = lastBcast.seq
    /\ signedSeq = seq0 + 1

\* C2: after a 0x14 rejection the sequence is back at the rejected number, no
\* further broadcast is issued in that iteration, the record of the block carries
\* the number of broadcasts accepted before the rejection, and the loop goes on
\* to the wait and to the next target height.
C2_SaturationEndsBlock ==
    saturated =>
        /\ pc \in {"WaitForHeight", "Block", "LoopHead", "returned"}
        /\ lastBcast.code = CodeMempoolFull
        /\ accSeq = lastBcast.seq
        /\ sent = accepted
        /\ pc = "LoopHead" =>
              /\ lastRecord.sent = accepted
              /\ lastRecord.height = targetHeight - 1

\* saturation on the 2nd of 2 requested broadcasts: the record carries sent = 1
C2_Witness ==
    /\ saturated
    /\ pc = "LoopHead"
    /\ i = 1
    /\ blocks = 2
    /\ txNum = 2
    /\ lastRecord.sent = 1
    /\ accSeq = seq0 + 1

\* C3: the filling of a block ends with sent <= txNum, with sent = txNum exactly
\* when no 0x14 rejection occurred, and with sent < txNum, the count reached
\* before the rejection, when one occurred.
C3_FillBlockCount ==
    pc \in {"WaitForHeight", "Block"} =>
        /\ sent <= txNum
        /\ (sent = txNum) <=> ~saturated
        /\ saturated => (sent = accepted /\ sent < txNum)

\* the task has returned without an error
Done == pc = "returned" /\ err = "none"

\* C4: for blocks >= 0 the loop ends, unless a call fails, and it ends after
\* exactly blocks iterations, blocks advances of the target, blocks records, and
\* with no wait after the one for the last target (none but the start's and no
\* broadcast when blocks = 0).
C4_ExactlyBlocksIterations ==
    /\ [](Done /\ blocks >= 0 =>
             /\ i = blocks
             /\ nAdvance = blocks
             /\ nRecords = blocks
             /\ nStatus = blocks + 1
             /\ IF blocks = 0
                THEN nBcast = 0 /\ lastWaited = startingHeight - 1
                ELSE lastWaited = lastRecord.height /\ targetHeight = lastWaited + 1)
    /\ <>(pc = "returned")

C4_Witness == Done /\ blocks = MaxBlocks /\ nRecords = MaxBlocks /\ nBcast > 0

\* C5: each iteration starts with one height query; an observed height equal to
\* target-1 leaves the target and logs nothing, any other sets the target to the
\* observed height plus one and logs one warning; the target changes otherwise
\* only by the advance at the end of an iteration.
C5_DriftCorrection ==
    [][/\ (pc = "LoopHead" /\ pc' = "FillOuter") =>
            /\ nStatus' = nStatus + 1
            /\ IF lastObs' = targetHeight - 1
               THEN targetHeight' = targetHeight /\ nWarn' = nWarn
               ELSE /\ targetHeight' = lastObs' + 1
                    /\ nWarn' = nWarn + 1
                    /\ lastWarn' = [expected |-> targetHeight - 1, got |-> lastObs']
       /\ (pc = "Block" /\ pc' = "LoopHead") =>
            /\ targetHeight' = targetHeight + 1
            /\ nWarn' = nWarn
            /\ nStatus' = nStatus
       /\ pc \in {"FillOuter", "Sign", "Broadcast", "WaitForHeight"} =>
            /\ targetHeight' = targetHeight
            /\ nWarn' = nWarn
            /\ nStatus' = nStatus]_vars

\* the node was behind in the second iteration: the target was lowered
C5_Witness ==
    /\ pc = "FillOuter"
    /\ i = 1
    /\ nWarn = 1
    /\ lastWarn.got < lastWarn.expected
    /\ targetHeight = lastWarn.got + 1

\* the node was ahead: the target was raised
C5_WitnessAhead ==
    /\ pc = "FillOuter"
    /\ nWarn = 1
    /\ lastWarn.got > lastWarn.expected
    /\ targetHeight = lastWarn.got + 1

(***************************************************************************)
(* The multi-chain command: IBCMuiltTransferCmd, SrcChainsend and, as one  *)
(* step for its set-up and one for each iteration, DstChainsend.           *)
(***************************************************************************)
MaxMnemonics == 2
MultiBlocks == 1

\* cfg.IBCconfig.Chains, by chain id
ConfigChains == <<"A", "B", "C", "D">>

\* the chain lists the model draws from: "Z" is in no configuration
SrcChainLists == {<<"A">>, <<"A", "B">>, <<"A", "A">>, <<"Z">>, <<"A", "Z">>}
DstChainLists == {<<"C">>, <<"C", "D">>, <<"A", "C">>, <<"C", "C">>, <<"Z">>, <<"C", "Z">>}

\* faulty variant: flag is not reset after a chain that does not match
FlagScanNoReset(name, chains) == Len(chains) > 0

\* flag after: for _, chain := range chains { flag = true; if match { break }; flag = false }
RECURSIVE FlagScan(_, _)
FlagScan(name, chains) ==
    IF Len(chains) = 0 THEN FALSE
    ELSE IF Head(chains) = name THEN TRUE
    ELSE FlagScan(name, Tail(chains))

\* the checks of RunE before it starts a goroutine
ValidateArgs(src, dst, n) ==
    IF \E k \in 1..Len(src) : ~FlagScan(src[k], ConfigChains) THEN "src"
    ELSE IF \E k \in 1..Len(dst) : ~FlagScan(dst[k], ConfigChains) THEN "dst"
    ELSE IF Len(dst) > n THEN "mnemonics"
    ELSE "ok"

\* faulty variant: the last destination is left out
SubchainsDropLast(main, dst) ==
    LET Keep(name) == name # main /\ FlagScan(name, ConfigChains)
        all == SelectSeq(dst, Keep)
    IN  SubSeq(all, 1, Len(all) - 1)

\* subchains: the destinations found in the configuration, the source chain left out
Subchains(main, dst) ==
    LET Keep(name) == name # main /\ FlagScan(name, ConfigChains)
    IN  SelectSeq(dst, Keep)

\* faulty variant: an error of a goroutine cancels the shared context
CtxCancelOnError(cancelled, e) == cancelled \/ e # "none"

\* the context after a goroutine returned e: the error is dropped
CtxAfterTask(cancelled, e) == cancelled

\* faulty variant: the wait does not wait
WaitReturnsAtOnce(counter) == TRUE

\* wait.Wait() returns
WaitReturns(counter) == counter = 0

\* what RunE returns after wait.Wait()
RetAfterWait == "nil"

SrcTasks == 1..Len(srcchains)

DstTasksOf(s) == {<<s, k>> : k \in 1..Len(Subchains(srcchains[s], dstchains))}

DstTasks == UNION {DstTasksOf(s) : s \in SrcTasks}

\* faulty variant: every Send Loop of a source chain signs with the first mnemonic
AccountIndexFirst(k) == 0

\* accountindex: the index of the k-th entry of subchains in `for index, ... := range subchains`
AccountIndex(k) == k - 1

\* faulty variant: one client for the whole process
NewHandleShared(s) == 1

\* the client that the NewClient call of the s-th SrcChainsend returns: a new one
NewHandle(s) == s

IdleSrc == [pc |-> "idle", err |-> "none", client |-> "none", handle |-> 0, nextDst |-> 1]

\* a DstChainsend not yet started; index, chain and client are its arguments
\* accountindex, dstchaininfo.ChainId and MainChainClient
IdleDst == [pc |-> "idle", i |-> 0, err |-> "none", index |-> -1, chain |-> "", client |-> 0]

MultiInit ==
    /\ srcchains \in SrcChainLists
    /\ dstchains \in DstChainLists
    /\ mnemonics \in 0..MaxMnemonics
    /\ mainPc = "Validate"
    /\ ret = "none"
    /\ ctxCancelled = FALSE
    /\ mainWg = 0
    /\ nextSrc = 1
    /\ srcT = [s \in SrcTasks |-> IdleSrc]
    /\ srcWg = [s \in SrcTasks |-> 0]
    /\ dstT = [t \in DstTasks |-> IdleDst]
    /\ args = [blocks |-> DigitStr(MultiBlocks), txNum |-> <<"1">>, msgNum |-> <<"1">>]
    /\ pc = "multi"
    /\ err = "none"
    /\ connected = FALSE
    /\ everConnected = FALSE
    /\ blocks = 0 /\ txNum = 0 /\ msgNum = 0
    /\ seq0 = 0
    /\ accSeq = 0
    /\ height = 1
    /\ lastObs = 0
    /\ monotone = TRUE
    /\ startingHeight = 0
    /\ targetHeight = 0
    /\ i = 0
    /\ sent = 0
    /\ blockTimes = {}
    /\ signedSeq = -1
    /\ lastBcast = NoBcast
    /\ nBcast = 0
    /\ accepted = 0
    /\ saturated = FALSE
    /\ nStatus = 0
    /\ nWarn = 0
    /\ nRecords = 0
    /\ lastRecord = NoRecord
    /\ nAdvance = 0
    /\ lastWarn = NoWarn
    /\ lastWaited = 0

\* lines 60-93: the checks; a failed check returns the error, and cancel() runs
Validate ==
    /\ mainPc = "Validate"
    /\ IF ValidateArgs(srcchains, dstchains, mnemonics) = "ok"
       THEN /\ mainPc' = "Spawn"
            /\ UNCHANGED <<ret, ctxCancelled>>
       ELSE /\ mainPc' = "returned"
            /\ ret' = "error"
            /\ ctxCancelled' = TRUE
    /\ UNCHANGED <<loopVars, srcchains, dstchains, mnemonics, mainWg, nextSrc, srcT, srcWg,
                   dstT>>

\* for _, chainname := range srcchains { wait.Add(1); go func ... }
SpawnSrc ==
    /\ mainPc = "Spawn"
    /\ IF nextSrc <= Len(srcchains)
       THEN /\ mainWg' = mainWg + 1
            /\ srcT' = [srcT EXCEPT ![nextSrc].pc = "NewClient"]
            /\ nextSrc' = nextSrc + 1
            /\ mainPc' = mainPc
       ELSE /\ mainPc' = "Wait"
            /\ UNCHANGED <<mainWg, srcT, nextSrc>>
    /\ UNCHANGED <<loopVars, srcchains, dstchains, mnemonics, ret, ctxCancelled, srcWg, dstT>>

\* wait.Wait(); return nil, and the deferred cancel() runs
MainWait ==
    /\ mainPc = "Wait"
    /\ WaitReturns(mainWg)
    /\ mainPc' = "returned"
    /\ ret' = RetAfterWait
    /\ ctxCancelled' = TRUE
    /\ UNCHANGED <<loopVars, srcchains, dstchains, mnemonics, mainWg, nextSrc, srcT, srcWg,
                   dstT>>

\* SrcChainsend returns e: the deferred Stop and Close run, then wait.Done()
SrcReturn(s, e) ==
    /\ srcT' = [srcT EXCEPT ![s].pc = "returned", ![s].err = e,
                            ![s].client = IF @ = "open" THEN "closed" ELSE @]
    /\ mainWg' = mainWg - 1
    /\ ctxCancelled' = CtxAfterTask(ctxCancelled, e)

\* MainChainClient, err := client.NewClient(mainchain.Rpc, mainchain.Grpc)
SrcNewClient(s) ==
    /\ srcT[s].pc = "NewClient"
    /\ \/ /\ srcT' = [srcT EXCEPT ![s].pc = "AllChainsTrace", ![s].client = "open",
                                  ![s].handle = NewHandle(s)]
          /\ UNCHANGED <<mainWg, ctxCancelled>>
       \/ SrcReturn(s, "connect")
    /\ UNCHANGED <<loopVars, srcchains, dstchains, mnemonics, mainPc, ret, nextSrc, srcWg,
                   dstT>>

\* mainchainibcinfo, err := grpcclient.AllChainsTrace(ctx)
SrcAllChainsTrace(s) ==
    /\ srcT[s].pc = "AllChainsTrace"
    /\ \/ /\ ~ctxCancelled
          /\ srcT' = [srcT EXCEPT ![s].pc = "Spawn"]
          /\ UNCHANGED <<mainWg, ctxCancelled>>
       \/ SrcReturn(s, "query")
    /\ UNCHANGED <<loopVars, srcchains, dstchains, mnemonics, mainPc, ret, nextSrc, srcWg,
                   dstT>>

\* for index, dstchaininfo := range subchains { wait.Add(1); go func ... }
SrcSpawn(s) ==
    /\ srcT[s].pc = "Spawn"
    /\ IF srcT[s].nextDst <= Len(Subchains(srcchains[s], dstchains))
       THEN /\ srcWg' = [srcWg EXCEPT ![s] = @ + 1]
            /\ dstT' = [dstT EXCEPT ![<<s, srcT[s].nextDst>>] =
                            [@ EXCEPT !.pc = "Setup",
                                      !.index = AccountIndex(srcT[s].nextDst),
                                      !.chain = Subchains(srcchains[s], dstchains)[srcT[s].nextDst],
                                      !.client = srcT[s].handle]]
            /\ srcT' = [srcT EXCEPT ![s].nextDst = @ + 1]
       ELSE /\ srcT' = [srcT EXCEPT ![s].pc = "Wait"]
            /\ UNCHANGED <<srcWg, dstT>>
    /\ UNCHANGED <<loopVars, srcchains, dstchains, mnemonics, mainPc, ret, ctxCancelled,
                   mainWg, nextSrc>>

\* wait.Wait(); return nil
SrcWait(s) ==
    /\ srcT[s].pc = "Wait"
    /\ WaitReturns(srcWg[s])
    /\ SrcReturn(s, "none")
    /\ UNCHANGED <<loopVars, srcchains, dstchains, mnemonics, mainPc, ret, nextSrc, srcWg,
                   dstT>>

\* DstChainsend returns e, then wait.Done()
DstReturn(t, e) ==
    /\ dstT' = [dstT EXCEPT ![t].pc = "returned", ![t].err = e]
    /\ srcWg' = [srcWg EXCEPT ![t[1]] = @ - 1]
    /\ ctxCancelled' = CtxAfterTask(ctxCancelled, e)

\* the calls of DstChainsend can succeed: the context is live and the client open
CallsCanSucceed(t) == ~ctxCancelled /\ srcT[t[1]].client = "open"

\* lines 160-228: from GetCLIContext to targetHeight := startingHeight
DstSetup(t) ==
    /\ dstT[t].pc = "Setup"
    /\ \/ /\ CallsCanSucceed(t)
          /\ AtoiOk(args.blocks) /\ AtoiOk(args.txNum) /\ AtoiOk(args.msgNum)
          /\ dstT' = [dstT EXCEPT ![t].pc = "Loop"]
          /\ UNCHANGED <<srcWg, ctxCancelled>>
       \/ DstReturn(t, "failed")
    /\ UNCHANGED <<loopVars, srcchains, dstchains, mnemonics, mainPc, ret, mainWg, nextSrc,
                   srcT>>

\* lines 230-298: one iteration of the loop, or the return after the last
DstIterate(t) ==
    /\ dstT[t].pc = "Loop"
    /\ IF LoopContinues(dstT[t].i, AtoiVal(args.blocks))
       THEN \/ /\ CallsCanSucceed(t)
               /\ dstT' = [dstT EXCEPT ![t].i = @ + 1]
               /\ UNCHANGED <<srcWg, ctxCancelled>>
            \/ DstReturn(t, "failed")
       ELSE DstReturn(t, "none")
    /\ UNCHANGED <<loopVars, srcchains, dstchains, mnemonics, mainPc, ret, mainWg, nextSrc,
                   srcT>>

MultiNext ==
    \/ Validate
    \/ SpawnSrc
    \/ MainWait
    \/ \E s \in SrcTasks : SrcNewClient(s)
    \/ \E s \in SrcTasks : SrcAllChainsTrace(s)
    \/ \E s \in SrcTasks : SrcSpawn(s)
    \/ \E s \in SrcTasks : SrcWait(s)
    \/ \E t \in DstTasks : DstSetup(t)
    \/ \E t \in DstTasks : DstIterate(t)

SpecMulti == MultiInit /\ [][MultiNext]_vars

(***************************************************************************)
(* Claims about the multi-chain command.                                   *)
(***************************************************************************)
Running(task) == task.pc \notin {"idle", "returned"}

\* C6: a failure of one task neither cancels nor blocks another: the context is
\* cancelled only when no task is running, a running Send Loop always has a live
\* context and an open client, and a Send Loop that returns without an error of
\* its own has completed its configured number of blocks.
C6_SiblingsUnaffected ==
    /\ ctxCancelled =>
          /\ mainPc = "returned"
          /\ \A s \in SrcTasks : ~Running(srcT[s])
          /\ \A t \in DstTasks : ~Running(dstT[t])
    /\ \A t \in DstTasks : Running(dstT[t]) => CallsCanSucceed(t)
    /\ \A t \in DstTasks :
          (dstT[t].pc = "returned" /\ dstT[t].err = "none") =>
              dstT[t].i = AtoiVal(args.blocks)

\* one Send Loop failed, its sibling completed its blocks, and another source
\* chain could not connect
C6_Witness ==
    /\ \E s \in SrcTasks : srcT[s].err = "connect"
    /\ \E t1, t2 \in DstTasks :
          /\ t1 # t2
          /\ t1[1] = t2[1]
          /\ dstT[t1].err = "failed"
          /\ dstT[t2].pc = "returned"
          /\ dstT[t2].err = "none"
          /\ dstT[t2].i = MultiBlocks
          /\ MultiBlocks > 0

\* the run of two source chains and two destination chains, all four distinct
TwoByTwo ==
    /\ srcchains = <<"A", "B">>
    /\ dstchains = <<"C", "D">>
    /\ mnemonics >= 2

\* C7 as stated: the 2 x 2 run starts and joins 4 Send Loops, whatever fails.
C7_FourLoopsJoined ==
    (TwoByTwo /\ mainPc = "returned") =>
        /\ Cardinality(DstTasks) = 4
        /\ \A t \in DstTasks : dstT[t].pc = "returned"

\* C7, amended: the 2 x 2 run has one Send Loop per (source, destination) pair;
\* when RunE returns, the two Send Loops of a source chain whose client connected
\* and whose routing query succeeded have been started and have returned, those of
\* a source chain whose client failed were never started, and every Send Loop that
\* returned without an error of its own has completed its blocks.
C7_LoopsJoinedPerSource ==
    (TwoByTwo /\ mainPc = "returned") =>
        /\ Cardinality(DstTasks) = 4
        /\ \A s \in SrcTasks :
              /\ srcT[s].pc = "returned"
              /\ Cardinality(DstTasksOf(s)) = 2
              /\ \A t \in DstTasksOf(s) :
                    IF srcT[s].err = "none"
                    THEN dstT[t].pc = "returned"
                    ELSE dstT[t] = IdleDst
        /\ \A t \in DstTasks :
              (dstT[t].pc = "returned" /\ dstT[t].err = "none") =>
                  dstT[t].i = AtoiVal(args.blocks)

\* the client of the first source chain failed at once; the two Send Loops of the
\* second ran to completion
C7_Witness ==
    /\ TwoByTwo
    /\ mainPc = "returned"
    /\ srcT[1].err = "connect"
    /\ \A t \in DstTasksOf(1) : dstT[t] = IdleDst
    /\ \A t \in DstTasksOf(2) :
          dstT[t].pc = "returned" /\ dstT[t].err = "none" /\ dstT[t].i = MultiBlocks

SomeTaskFailed ==
    \/ \E s \in SrcTasks : srcT[s].err # "none"
    \/ \E t \in DstTasks : dstT[t].err # "none"

\* C8: RunE returns an error when a source-chain task or a Send Loop failed.
C8_RunReportsFailure ==
    (mainPc = "returned" /\ SomeTaskFailed) => ret = "error"

\* every named chain is configured and there is a mnemonic for each destination
ValidInput ==
    LET configured == {ConfigChains[k] : k \in 1..Len(ConfigChains)}
    IN  /\ \A k \in 1..Len(srcchains) : srcchains[k] \in configured
        /\ \A k \in 1..Len(dstchains) : dstchains[k] \in configured
        /\ mnemonics >= Len(dstchains)

C9_WitnessValid ==
    /\ ValidInput
    /\ Len(srcchains) = 2
    /\ mainPc = "Wait"
    /\ \A s \in SrcTasks : Running(srcT[s])

(***************************************************************************)
(* A claim about the arguments of one Send Loop task.                      *)
(***************************************************************************)
\* C10: with a blocks, tx-num or msg-num argument that is not a non-negative
\* integer, no connection is opened and no transaction is broadcast.
C10_ArgsValidatedFirst ==
    ~(NonNegArg(args.blocks) /\ NonNegArg(args.txNum) /\ NonNegArg(args.msgNum)) =>
        (~everConnected /\ nBcast = 0)

\* C10, the second half alone: no broadcast with an argument that is not a
\* non-negative integer
C10_NoBroadcastWithInvalidArg ==
    ~(NonNegArg(args.blocks) /\ NonNegArg(args.txNum) /\ NonNegArg(args.msgNum)) =>
        nBcast = 0

\* the account a Send Loop signs for: the source chain's account of its mnemonic
Account(t) == [chain |-> srcchains[t[1]], mnemonic |-> dstT[t].index]

\* C11: no two running Send Loops sign for the same account of the same chain,
\* whatever the accepted source and destination lists.
C11_OneLoopPerAccount ==
    \A t1, t2 \in DstTasks :
        (t1 # t2 /\ Running(dstT[t1]) /\ Running(dstT[t2])) => Account(t1) # Account(t2)

(***************************************************************************)
(* More claims about one Send Loop task.                                   *)
(***************************************************************************)
\* C12: a failed query, wait, block fetch, payload build, signing or broadcast
\* call ends the task at once: the step that records the error is the return, and
\* after it the task issues no broadcast, no query, no wait and no record.
C12_FailureEndsLoop ==
    [][/\ (err = "none" /\ err' # "none") =>
             /\ pc' = "returned"
             /\ UNCHANGED <<nBcast, nStatus, nRecords, nAdvance, accSeq, sent, i, lastObs>>
       /\ pc = "returned" =>
             /\ pc' = "returned"
             /\ UNCHANGED <<err, nBcast, nStatus, nRecords, nAdvance, accSeq, sent, i,
                            lastObs, lastWaited, signedSeq>>]_vars

\* the transport failed on the second broadcast of the second block
C12_Witness ==
    /\ pc = "returned"
    /\ err = "broadcast"
    /\ i = 1
    /\ nBcast = 3
    /\ nRecords = 1

\* the order of the statements of one iteration
IterationOrder ==
    {<<"LoopHead", "FillOuter">>, <<"FillOuter", "Sign">>, <<"FillOuter", "WaitForHeight">>,
     <<"Sign", "Broadcast">>, <<"Broadcast", "Sign">>, <<"Broadcast", "FillOuter">>,
     <<"Broadcast", "WaitForHeight">>, <<"WaitForHeight", "Block">>, <<"Block", "LoopHead">>}

LoopStatements == {"LoopHead", "FillOuter", "Sign", "Broadcast", "WaitForHeight", "Block"}

\* C13: each iteration runs drift check, filling, wait for the target, block
\* fetch with its record, advance, in this order: a broadcast is issued only
\* before the wait of its iteration and after the record of the iteration before,
\* and the block is fetched only after the wait for its height.
C13_IterationOrder ==
    [][/\ (pc \in LoopStatements /\ pc' # pc) =>
             (pc' = "returned" \/ <<pc, pc'>> \in IterationOrder)
       /\ nBcast' # nBcast =>
             /\ pc = "Broadcast"
             /\ nRecords = i
             /\ pc' \in {"Sign", "FillOuter", "WaitForHeight"}
       /\ nRecords' # nRecords =>
             /\ pc = "Block"
             /\ lastWaited = targetHeight
             /\ lastObs >= targetHeight
             /\ lastRecord'.height = targetHeight
             /\ i' = i + 1
             /\ targetHeight' = targetHeight + 1]_vars

\* the second block's record is logged after the broadcasts of both blocks
C13_Witness ==
    /\ pc = "LoopHead"
    /\ i = 2
    /\ nRecords = 2
    /\ nBcast = 4

\* C14: the start queries the height c once, the starting height is c + 2 and is
\* the target with which the loop is entered, and nothing is signed or broadcast
\* before the chain has reached c + 1.
C14_AwaitStart ==
    /\ [](/\ pc = "WaitStart" => (nStatus = 1 /\ startingHeight = lastObs + 2)
          /\ (pc = "LoopHead" /\ i = 0) =>
                /\ nStatus = 1
                /\ targetHeight = startingHeight
                /\ lastWaited = startingHeight - 1
                /\ lastObs >= startingHeight - 1
          /\ (pc \in {"Sign", "Broadcast"} \/ nBcast > 0) => height >= startingHeight - 1)
    /\ [][pc # "StatusStart" => startingHeight' = startingHeight]_vars

\* the first transaction is signed with the chain at exactly c + 1
C14_Witness ==
    /\ pc = "Broadcast"
    /\ nBcast = 0
    /\ i = 0
    /\ startingHeight = 3
    /\ height = startingHeight - 1

\* C15: at the end of every iteration the block-time history holds at most one
\* timestamp, that of the block just recorded, and the record's duration is
\* computed exactly when the timestamp of height target - 1 is held.
C15_SingleTimestamp ==
    (pc = "LoopHead" /\ nRecords > 0) =>
        /\ blockTimes = {lastRecord.height}
        /\ Cardinality(blockTimes) <= 1

\* the part of C15 about the logged duration, which the code satisfies
C15_DurationFromPrevious ==
    [][nRecords' # nRecords =>
          /\ lastRecord'.known = ((targetHeight - 1) \in blockTimes)
          /\ targetHeight \in blockTimes']_vars

\* the positions of the destination list that a source-chain task sends to
KeptPositions(s) == {p \in 1..Len(dstchains) : dstchains[p] # srcchains[s]}

\* the number of kept positions before position p
KeptBefore(s, p) == Cardinality({q \in KeptPositions(s) : q < p})

C16_WitnessTwo ==
    /\ dstchains = <<"C", "D">>
    /\ srcT[1].pc = "Wait"
    /\ dstT[<<1, 2>>].pc # "idle"
    /\ dstT[<<1, 2>>].index = 1

\* C17: a broadcast answered with a non-zero code other than 0x14 is handled as
\* a success: the sequence number stays consumed, sent is incremented, the
\* filling of the block continues and the loop does not end.
C17_OtherCodeCountsAsSent ==
    [][(nBcast' # nBcast /\ lastBcast'.code \notin {0, CodeMempoolFull}) =>
          /\ lastBcast'.seq = accSeq
          /\ accSeq' = accSeq + 1
          /\ sent' = sent + 1
          /\ accepted' = accepted + 1
          /\ saturated' = FALSE
          /\ err' = "none"
          /\ pc' = IF sent + 1 < txNum THEN "Sign" ELSE "FillOuter"]_vars

\* after such an answer to the first transaction the second one is signed with
\* the next sequence number
C17_Witness ==
    /\ pc = "Broadcast"
    /\ lastBcast.code = CodeOther
    /\ sent = 1
    /\ txNum = 2
    /\ signedSeq = lastBcast.seq + 1

\* C18 as stated: no client handle is used by two concurrently running Send Loops.
C18_ClientPerSendLoop ==
    \A t1, t2 \in DstTasks :
        (t1 # t2 /\ Running(dstT[t1]) /\ Running(dstT[t2])) =>
            dstT[t1].client # dstT[t2].client

\* C18 amended: every source-chain task opens its own client, which all the Send
\* Loops it starts use and no Send Loop of another source-chain task uses.
C18_ClientPerSourceTask ==
    /\ \A s1, s2 \in SrcTasks :
          (s1 # s2 /\ srcT[s1].handle # 0 /\ srcT[s2].handle # 0) =>
              srcT[s1].handle # srcT[s2].handle
    /\ \A t \in DstTasks :
          dstT[t].pc # "idle" =>
              /\ srcT[t[1]].handle # 0
              /\ dstT[t].client = srcT[t[1]].handle
    /\ \A t1, t2 \in DstTasks :
          (dstT[t1].pc # "idle" /\ dstT[t2].pc # "idle") =>
              (dstT[t1].client = dstT[t2].client <=> t1[1] = t2[1])

\* two source chains with two destinations each: four Send Loops run on two clients
C18_Witness ==
    /\ TwoByTwo
    /\ \A t \in DstTasks : Running(dstT[t])
    /\ dstT[<<1, 1>>].client = dstT[<<1, 2>>].client
    /\ dstT[<<2, 1>>].client = dstT[<<2, 2>>].client
    /\ dstT[<<1, 1>>].client # dstT[<<2, 1>>].client

\* C19: RunE returns only after every source-chain task returned, and a
\* source-chain task returns and closes its client only after every Send Loop it
\* started returned: the run is never finished, the context never cancelled and
\* a client never closed while one of its Send Loops is running.  The counters
\* of the two wait groups are the numbers of the tasks still running.
C19_JoinBeforeReturn ==
    /\ (mainPc = "returned" \/ ctxCancelled) =>
          /\ \A s \in SrcTasks : ~Running(srcT[s])
          /\ \A t \in DstTasks : ~Running(dstT[t])
    /\ (mainPc = "returned" /\ ret = RetAfterWait) =>
          \A s \in SrcTasks : srcT[s].pc = "returned"
    /\ \A s \in SrcTasks :
          (srcT[s].pc = "returned" \/ srcT[s].client = "closed") =>
              /\ \A t \in DstTasksOf(s) : ~Running(dstT[t])
              /\ srcT[s].err = "none" => \A t \in DstTasksOf(s) : dstT[t].pc = "returned"
    /\ mainWg = Cardinality({s \in SrcTasks : Running(srcT[s])})
    /\ \A s \in SrcTasks :
          srcWg[s] = Cardinality({t \in DstTasksOf(s) : Running(dstT[t])})

\* the first source-chain task has joined its two Send Loops and closed its
\* client while RunE still waits for the second, one of whose Send Loops runs
C19_Witness ==
    /\ TwoByTwo
    /\ mainPc = "Wait"
    /\ mainWg = 1
    /\ srcT[1].pc = "returned"
    /\ srcT[1].err = "none"
    /\ srcT[1].client = "closed"
    /\ \A t \in DstTasksOf(1) : dstT[t].pc = "returned"
    /\ srcT[2].pc = "Wait"
    /\ srcWg[2] = 1
    /\ Running(dstT[<<2, 2>>])

\* C20: while the reported height has never decreased, a drift correction does
\* not lower the target, every target is above the height last waited for, and
\* the heights of the block-committed records are strictly increasing.
C20_HeightsIncrease ==
    [][/\ (pc = "LoopHead" /\ pc' = "FillOuter" /\ monotone') =>
             /\ targetHeight' >= targetHeight
             /\ targetHeight' > lastWaited
             /\ nRecords > 0 => targetHeight' > lastRecord.height
       /\ (nRecords' # nRecords /\ nRecords > 0 /\ monotone') =>
             lastRecord'.height > lastRecord.height]_vars

\* two blocks recorded under non-decreasing reports, the second after a drift
\* correction that raised the target
C20_Witness ==
    /\ monotone
    /\ nRecords = 2
    /\ nWarn >= 1
    /\ lastWarn.got > lastWarn.expected
    /\ lastRecord.height = targetHeight - 1
    /\ lastRecord.height > startingHeight + 1

====
